---------------------------- MODULE Spec2Model ----------------------------
(***************************************************************************)
(* Model of the repository-ingestion core of codebase-genius:              *)
(*   BE/python_helpers/repo_utils.py    clone_repo, generate_file_tree,    *)
(*                                      read_readme                        *)
(*   BE/python_helpers/parser_utilis.py parse_with_treesitter,             *)
(*                                      extract_code_snippet               *)
(* The five functions are stateless apart from the temporary directories   *)
(* clone_repo creates.  A behaviour is one call: Init draws the request    *)
(* (function and arguments, with the files it will read), one action per   *)
(* function runs the whole call and records what the caller gets back.     *)
(*                                                                         *)
(* Text is modelled as a sequence of tokens (a keyword, an identifier, one *)
(* punctuation character, a blank " " or a line break "\n"); a path as the *)
(* sequence of its components.                                             *)
(***************************************************************************)
EXTENDS Integers, Sequences, FiniteSets

VARIABLES
    req,      \* the call being made: [kind, ...arguments and the files read]
    pc,       \* "call" before the function has run, "done" after it returned
    res,      \* what the caller observes: [raised, value]
    tmpDirs,  \* the repo_* directories that exist under the temp area
    locals    \* clone_repo's local variables at the moment it returns

vars == <<req, pc, res, tmpDirs, locals>>

(***************************** bounds **************************************)
MaxFiles == 2
MaxUrlTail == 3
MaxLines == 3
LongTail == 11
MaxFileLines == 10
MaxContext == 5
MaxOff == 3

(***************************** helpers *************************************)
Max(a, b) == IF a >= b THEN a ELSE b
Min(a, b) == IF a <= b THEN a ELSE b

SeqsUpTo(S, n) == UNION { [1..k -> S] : k \in 0..n }

Return(v) == [raised |-> FALSE, value |-> v]
Raise(e) == [raised |-> TRUE, value |-> e]

(************************ generate_file_tree *******************************)
ignore == {".git", "node_modules", "__pycache__", ".venv", ".env"}

\* f.startswith('.') on the names the model uses
StartsWithDot(f) == f \in {".git", ".env", ".venv"}

\* the file paths a walked directory may hold (no path is a prefix of another)
TreePaths ==
    { <<"a.py">>, <<"README.md">>, <<".env">>,
      <<"src", "a.py">>, <<"src", ".env">>,
      <<"node_modules", "a.py">>, <<".git", "a.py">>,
      <<"src", "node_modules", "a.py">> }

Trees == { t \in SUBSET TreePaths : Cardinality(t) <= MaxFiles }

Front(p) == SubSeq(p, 1, Len(p) - 1)

\* the directories of a tree: the root <<>> and every proper prefix of a file
DirsOf(tree) ==
    {<<>>} \cup UNION { { SubSeq(p, 1, k) : k \in 0..(Len(p) - 1) } : p \in tree }

\* os.walk top-down with `dirs[:] = [d for d in dirs if d not in ignore]`:
\* a directory is visited iff none of its components below the root is pruned
WalkVisits(tree) ==
    { d \in DirsOf(tree) : \A i \in 1..Len(d) : d[i] \notin ignore }

\* os.path.realpath(root, path): realpath accepts one positional argument
\* (its second parameter, strict, is keyword-only), so the call raises TypeError
realpath2(root, path) == Raise("TypeError")

\* string order of the names the model uses (ASCII)
NameOrder == <<".env", ".git", "README.md", "a.py", "node_modules", "src">>
NameRank(n) == CHOOSE i \in 1..Len(NameOrder) : NameOrder[i] = n

RECURSIVE PathLess(_, _)
PathLess(p, q) ==
    IF p = <<>> THEN q # <<>>
    ELSE IF q = <<>> THEN FALSE
    ELSE IF p[1] = q[1] THEN PathLess(Tail(p), Tail(q))
    ELSE NameRank(p[1]) < NameRank(q[1])

RECURSIVE sorted(_)
sorted(S) ==
    IF S = {} THEN <<>>
    ELSE LET m == CHOOSE x \in S : \A y \in S \ {x} : PathLess(x, y)
         IN <<m>> \o sorted(S \ {m})

\* rootKind: "dir" when the walked path is a directory, "missing" otherwise
\* (os.walk swallows the listing error and yields nothing)
generate_file_tree(rootKind, tree) ==
    LET visits == IF rootKind = "dir" THEN WalkVisits(tree) ELSE {}
        rel == [d \in visits |-> realpath2(d, <<>>)]
    IN IF \E d \in visits : rel[d].raised
       THEN Raise("TypeError")
       ELSE Return(sorted(
              { rel[Front(p)].value \o <<p[Len(p)]>> :
                  p \in { q \in tree : /\ Front(q) \in visits
                                       /\ ~StartsWithDot(q[Len(q)]) } }))

(***************************** read_readme *********************************)
candidate == <<"README.md", "readme.md", "README.rst", "README">>
Candidates == { candidate[i] : i \in 1..Len(candidate) }

\* what lies at a candidate path: nothing, a file open() cannot decode,
\* an empty file, or a file with text
FileStates == {"absent", "undecodable", "empty", "text"}

Str(s) == [kind |-> "str", s |-> s]
None == [kind |-> "none", s |-> ""]

\* fh.read() of a candidate: the text of a file stands for itself by its name
ReadText(c, st) == IF st = "empty" THEN "" ELSE c

RECURSIVE ReadFrom(_, _)
ReadFrom(cands, i) ==
    IF i > Len(candidate) THEN Str("")
    ELSE IF cands[candidate[i]] # "absent"
         THEN IF cands[candidate[i]] = "undecodable"
              THEN Str("")
              ELSE Str(ReadText(candidate[i], cands[candidate[i]]))
         ELSE ReadFrom(cands, i + 1)

read_readme(cands) == Return(ReadFrom(cands, 1))

\* the candidates of a cloned tree: a root file of that name, with text
CandsOfTree(tree) ==
    [c \in Candidates |-> IF <<c>> \in tree THEN "text" ELSE "absent"]

(******************************* clone_repo ********************************)
UrlPrefix == <<"https:", "/", "/", "host", "/">>
UrlTokens == {"/", ".git", "a"}
Urls == { UrlPrefix \o t : t \in SeqsUpTo(UrlTokens, MaxUrlTail) }

RECURSIVE rstripSlash(_)
rstripSlash(u) ==
    IF u # <<>> /\ u[Len(u)] = "/" THEN rstripSlash(Front(u)) ELSE u

RECURSIVE basename(_)
basename(u) ==
    IF u = <<>> \/ u[Len(u)] = "/" THEN <<>>
    ELSE basename(Front(u)) \o <<u[Len(u)]>>

\* str.replace(".git", ""): every occurrence is removed
replaceGit(s) == SelectSeq(s, LAMBDA t : t # ".git")

RepoName(url) == replaceGit(basename(rstripSlash(url)))

FetchOutcomes == {"exit0", "nonzero", "timeout"}
TmpIds == 1..2
NoLocals == [tmp |-> 0, named |-> FALSE, name |-> <<>>, fetch |-> "none"]

Failure(e) == Return([ok |-> FALSE, error |-> e])

\* mkdtemp raised: nothing was created
CloneNoTmp ==
    /\ pc = "call" /\ req.kind = "clone_repo"
    /\ res' = Failure("mkdtemp")
    /\ locals' = NoLocals
    /\ pc' = "done"
    /\ UNCHANGED <<req, tmpDirs>>

\* the whole of clone_repo once mkdtemp has made the fresh directory tmp
CloneRepo(tmp, fetch) ==
    /\ pc = "call" /\ req.kind = "clone_repo"
    /\ tmp \notin tmpDirs
    /\ pc' = "done"
    /\ UNCHANGED req
    /\ IF fetch = "timeout"
       THEN \* subprocess.run raises TimeoutExpired; the handler only reports
            /\ tmpDirs' = tmpDirs \cup {tmp}
            /\ locals' = [NoLocals EXCEPT !.tmp = tmp, !.fetch = fetch]
            /\ res' = Failure("TimeoutExpired")
       ELSE IF fetch = "nonzero"
       THEN \* shutil.rmtree(tmp, ignore_errors=True)
            /\ tmpDirs' = tmpDirs
            /\ locals' = [NoLocals EXCEPT !.tmp = tmp, !.fetch = fetch]
            /\ res' = Failure("stderr")
       ELSE LET name == RepoName(req.url)
                file_tree == generate_file_tree("dir", req.repo \cup {<<".git", "HEAD">>})
                readme == read_readme(CandsOfTree(req.repo))
            IN /\ tmpDirs' = tmpDirs \cup {tmp}
               /\ locals' = [tmp |-> tmp, named |-> TRUE, name |-> name,
                             fetch |-> fetch]
               /\ res' = IF file_tree.raised THEN Failure(file_tree.value)
                         ELSE IF readme.raised THEN Failure(readme.value)
                         ELSE Return([ok |-> TRUE, path |-> tmp, name |-> name,
                                      file_tree |-> file_tree.value,
                                      readme |-> readme.value])

clone_repo ==
    \/ CloneNoTmp
    \/ \E tmp \in TmpIds, fetch \in FetchOutcomes : CloneRepo(tmp, fetch)

Walk ==
    /\ pc = "call" /\ req.kind = "generate_file_tree"
    /\ res' = generate_file_tree(req.rootKind, req.tree)
    /\ pc' = "done"
    /\ UNCHANGED <<req, tmpDirs, locals>>

ResolveReadme ==
    /\ pc = "call" /\ req.kind = "read_readme"
    /\ res' = read_readme(req.cands)
    /\ pc' = "done"
    /\ UNCHANGED <<req, tmpDirs, locals>>

(************************** parse_with_treesitter **************************)
NL == "\n"
IsSpace(t) == t \in {" ", NL}                         \* \s
IsWord(t) == t \in {"def", "class", "foo", "Bar", "x", "pass"}  \* [A-Za-z0-9_]+

\* first index >= i of text that is not white space (Len(text) + 1 if none)
RECURSIVE SkipSpace(_, _)
SkipSpace(text, i) ==
    IF i <= Len(text) /\ IsSpace(text[i]) THEN SkipSpace(text, i + 1) ELSE i

\* ^ under re.MULTILINE: the start of the text or just after a line break
AtLineStart(text, i) == i = 1 \/ text[i - 1] = NL

NoMatch == [ok |-> FALSE, stop |-> 0, name |-> ""]

\* keyword, \s+, ([A-Za-z0-9_]+), \s* seen from index i: the index after them
DeclHead(text, i, keyword) ==
    LET k == SkipSpace(text, i)
        n == SkipSpace(text, k + 1)
    IN IF /\ AtLineStart(text, i)
          /\ k <= Len(text) /\ text[k] = keyword
          /\ n > k + 1 /\ n <= Len(text) /\ IsWord(text[n])
       THEN [ok |-> TRUE, stop |-> SkipSpace(text, n + 1), name |-> text[n]]
       ELSE NoMatch

\* func_pattern = ^\s*def\s+([A-Za-z0-9_]+)\s*\(  matched at index i
func_pattern(text, i) ==
    LET h == DeclHead(text, i, "def")
    IN IF h.ok /\ h.stop <= Len(text) /\ text[h.stop] = "("
       THEN [h EXCEPT !.stop = h.stop + 1]
       ELSE NoMatch

\* class_pattern = ^\s*class\s+([A-Za-z0-9_]+)\s*[\(:]?  matched at index i
class_pattern(text, i) ==
    LET h == DeclHead(text, i, "class")
    IN IF h.ok /\ h.stop <= Len(text) /\ text[h.stop] \in {"(", ":"}
       THEN [h EXCEPT !.stop = h.stop + 1]
       ELSE h

\* call_pattern = ([A-Za-z_][A-Za-z0-9_]*)\s*\(  matched at index i
call_pattern(text, i) ==
    LET p == SkipSpace(text, i + 1)
    IN IF IsWord(text[i]) /\ p <= Len(text) /\ text[p] = "("
       THEN [ok |-> TRUE, stop |-> p + 1, name |-> text[i]]
       ELSE NoMatch

MatchAt(pat, text, i) ==
    IF pat = "func" THEN func_pattern(text, i)
    ELSE IF pat = "class" THEN class_pattern(text, i)
    ELSE call_pattern(text, i)

\* text[:m.start()].count("\n") + 1
LineNo(text, start) ==
    Cardinality({ j \in 1..(start - 1) : text[j] = NL }) + 1

\* pattern.finditer(text): the non-overlapping matches, left to right
RECURSIVE finditer(_, _, _)
finditer(pat, text, i) ==
    IF i > Len(text) THEN <<>>
    ELSE LET m == MatchAt(pat, text, i)
         IN IF m.ok
            THEN <<[name |-> m.name, lineno |-> LineNo(text, i)]>>
                     \o finditer(pat, text, m.stop)
            ELSE finditer(pat, text, i + 1)

Tagged(type, ms) ==
    [i \in 1..Len(ms) |-> [type |-> type, name |-> ms[i].name, lineno |-> ms[i].lineno]]

\* the two loops in the other order: every class match, then every function match
CollectSymbolsClassesFirst(text) ==
    Tagged("class", finditer("class", text, 1))
        \o Tagged("function", finditer("func", text, 1))

\* the two loops that fill symbols: every function match, then every class match
CollectSymbols(text) ==
    Tagged("function", finditer("func", text, 1))
        \o Tagged("class", finditer("class", text, 1))

CollectCalls(text) ==
    LET ms == finditer("call", text, 1)
    IN [i \in 1..Len(ms) |-> [call |-> ms[i].name, lineno |-> ms[i].lineno]]

TopN == 10

\* symbols[:10]
TopSymbols(symbols) == SubSeq(symbols, 1, Min(TopN, Len(symbols)))

\* os.path.splitext(file_path)[1].lower(), then ext.replace('.', '') or "txt"
Lang(ext) ==
    IF ext \in {".py", ".PY"} THEN "py" ELSE "txt"

\* file: [base, ext, readable, text]
parse_with_treesitter(file) ==
    IF ~file.readable
    THEN Return([ok |-> FALSE, error |-> "cannot read file"])
    ELSE LET symbols == CollectSymbols(file.text)
             calls == CollectCalls(file.text)
         IN Return([ok |-> TRUE, symbols |-> symbols, calls |-> calls,
                    summary |-> [file |-> file.base, lang |-> Lang(file.ext),
                                 num_symbols |-> Len(symbols),
                                 num_calls |-> Len(calls),
                                 top_symbols |-> TopSymbols(symbols)]])

Analyze ==
    /\ pc = "call" /\ req.kind = "parse_with_treesitter"
    /\ res' = parse_with_treesitter(req.file)
    /\ pc' = "done"
    /\ UNCHANGED <<req, tmpDirs, locals>>

\* the lines a source file is made of
DefLine == <<"def", " ", "foo", "(", "x", ")", ":">>
ClassLine == <<"class", " ", "Bar", ":">>
BlankLine == <<>>
PassLine == <<" ", "pass">>
CallLine == <<"foo", "(", "x", ")">>
MethodLine == <<" ", "def", " ", "foo", "(", "x", ")", ":">>
LineKinds == {DefLine, ClassLine, BlankLine, PassLine, CallLine, MethodLine}

RECURSIVE JoinLines(_)
JoinLines(ls) ==
    IF ls = <<>> THEN <<>> ELSE ls[1] \o <<NL>> \o JoinLines(Tail(ls))

\* a long run of declarations, classes and functions alternating
LongLines == [i \in 1..LongTail |-> IF i % 2 = 1 THEN ClassLine ELSE DefLine]

\* 'def foo(x):', '    pass', '', 'class Bar:', '    pass'
ScenarioA == <<DefLine, PassLine, BlankLine, ClassLine, PassLine>>

SourceLines ==
    SeqsUpTo(LineKinds, MaxLines)
        \cup { ls \o LongLines : ls \in SeqsUpTo(LineKinds, MaxLines) }
        \cup {ScenarioA}

(************************** extract_code_snippet ***************************)
\* lines[start:end] of Python: a negative index counts from the end, and both
\* ends are clamped to the list
SliceIndex(i, n) == IF i < 0 THEN Max(0, n + i) ELSE Min(i, n)
PySlice(lines, start, end) ==
    SubSeq(lines, SliceIndex(start, Len(lines)) + 1, SliceIndex(end, Len(lines)))

\* the window start without the conversion to a 0-based index
SnippetStartOneBased(lineno, context) == Max(0, lineno - context)

\* start = max(0, lineno - context - 1)
SnippetStart(lineno, context) == Max(0, lineno - context - 1)

\* end = min(len(lines), lineno + context)
SnippetEnd(lineno, context, n) == Min(n, lineno + context)

\* file: [readable, lines]; the text returned is the join of the lines kept
extract_code_snippet(file, lineno, context) ==
    IF ~file.readable THEN Return(<<>>)
    ELSE Return(PySlice(file.lines, SnippetStart(lineno, context),
                        SnippetEnd(lineno, context, Len(file.lines))))

ExtractSnippet ==
    /\ pc = "call" /\ req.kind = "extract_code_snippet"
    /\ res' = extract_code_snippet(req.file, req.lineno, req.context)
    /\ pc' = "done"
    /\ UNCHANGED <<req, tmpDirs, locals>>

\* a file of n lines; line i is written i
FileOf(n) == [i \in 1..n |-> i]
LineArgs == ((0 - MaxOff)..(MaxFileLines + MaxOff)) \cup {100}

(******************************* requests **********************************)
CloneRequests ==
    { [kind |-> "clone_repo", url |-> u, repo |-> t] : u \in Urls, t \in Trees }
WalkRequests ==
    { [kind |-> "generate_file_tree", rootKind |-> "dir", tree |-> t] : t \in Trees }
      \cup { [kind |-> "generate_file_tree", rootKind |-> "missing", tree |-> {}] }
ReadmeRequests ==
    { [kind |-> "read_readme", cands |-> c] : c \in [Candidates -> FileStates] }

AnalyzeRequests ==
    { [kind |-> "parse_with_treesitter",
       file |-> [base |-> "a" \o e, ext |-> e, readable |-> TRUE,
                 text |-> JoinLines(ls)]] : ls \in SourceLines, e \in {".py", ""} }
      \cup { [kind |-> "parse_with_treesitter",
              file |-> [base |-> "a.py", ext |-> ".py", readable |-> FALSE,
                        text |-> <<>>]] }

SnippetRequests ==
    { [kind |-> "extract_code_snippet", file |-> [readable |-> r, lines |-> FileOf(n)],
       lineno |-> l, context |-> c] :
        r \in BOOLEAN, n \in 0..MaxFileLines, l \in LineArgs, c \in 0..MaxContext }

Init ==
    /\ req \in CloneRequests \cup WalkRequests \cup ReadmeRequests
                \cup AnalyzeRequests \cup SnippetRequests
    /\ pc = "call"
    /\ res = Return("pending")
    /\ tmpDirs \in IF req.kind = "clone_repo" THEN {{}, {1}} ELSE {{}}
    /\ locals = NoLocals

Next == clone_repo \/ Walk \/ ResolveReadme \/ Analyze \/ ExtractSnippet

Spec == Init /\ [][Next]_vars

(******************************* properties ********************************)
Done(kind) == pc = "done" /\ req.kind = kind

\* the index of the first token of line k (Len(text) + 1 past the last line)
LineStart(text, k) ==
    CHOOSE i \in 1..(Len(text) + 1) :
        /\ LineNo(text, i) = k
        /\ \A j \in 1..(i - 1) : LineNo(text, j) < k

RECURSIVE SkipBlank(_, _)
SkipBlank(text, i) ==
    IF i <= Len(text) /\ text[i] = " " THEN SkipBlank(text, i + 1) ELSE i

LineCount(text) == Cardinality({ j \in 1..Len(text) : text[j] = NL })

\* line k is written starting (after indentation) with the keyword
LineDeclares(text, k, keyword) ==
    /\ k \in 1..LineCount(text)
    /\ LET i == SkipBlank(text, LineStart(text, k))
       IN i <= Len(text) /\ text[i] = keyword

Keyword(type) == IF type = "function" THEN "def" ELSE "class"

\* C1: whenever clone_repo returns ok = False after having created its
\* temporary directory (fetch failed, fetch timed out, or a fault was raised
\* later), that directory does not exist on return.
C1_FailedAcquireRemovesTmp ==
    (Done("clone_repo") /\ locals.tmp # 0 /\ ~res.raised /\ ~res.value.ok)
        => locals.tmp \notin tmpDirs

\* C2: whenever the fetch of clone_repo exits with status zero, clone_repo
\* returns ok = True with the working directory, which still exists, the file
\* tree generate_file_tree gives for it and the readme read_readme gives for it.
C2_FetchedAcquireSucceeds ==
    (Done("clone_repo") /\ locals.fetch = "exit0")
        => /\ ~res.raised
           /\ res.value.ok
           /\ res.value.path = locals.tmp
           /\ res.value.path \in tmpDirs
           /\ Return(res.value.file_tree)
                = generate_file_tree("dir", req.repo \cup {<<".git", "HEAD">>})
           /\ Return(res.value.readme) = read_readme(CandsOfTree(req.repo))

\* C3: none of the five public functions lets a fault escape to its caller:
\* every call returns a value.
C3_NoFaultEscapes ==
    pc = "done" => ~res.raised

\* C4: the sequence generate_file_tree returns for a directory tree is sorted,
\* free of duplicates, holds only paths relative to the root (the bare file
\* name for a file of the root), none under an ignored directory and none
\* whose basename starts with '.'.
C4_WalkSortedFiltered ==
    Done("generate_file_tree")
        => /\ ~res.raised
           /\ \A i \in 1..(Len(res.value) - 1) :
                  PathLess(res.value[i], res.value[i + 1])
           /\ \A i \in 1..Len(res.value) :
                  LET p == res.value[i]
                  IN /\ p \in req.tree
                     /\ \A k \in 1..(Len(p) - 1) : p[k] \notin ignore
                     /\ ~StartsWithDot(p[Len(p)])
           /\ \A p \in req.tree :
                  (Len(p) = 1 /\ ~StartsWithDot(p[1]) /\ req.rootKind = "dir")
                      => \E i \in 1..Len(res.value) : res.value[i] = p

\* C5: for every readable file, every context >= 0 and every integer lineno,
\* also zero, negative or beyond the file, extract_code_snippet returns at
\* most 2 * context + 1 lines.
C5_SnippetAtMostWindow ==
    (Done("extract_code_snippet") /\ req.file.readable)
        => Len(res.value) <= 2 * req.context + 1

\* C6 (as claimed): with lineno beyond the end of the file,
\* extract_code_snippet returns the tail of the file, not nothing; on a file
\* of 10 lines, lineno 100 and context 5 give exactly the last 5 lines.
C6_BeyondEndReturnsTail ==
    (Done("extract_code_snippet") /\ req.file.readable
        /\ Len(req.file.lines) = 10 /\ req.lineno = 100 /\ req.context = 5)
        => res.value = <<6, 7, 8, 9, 10>>

\* C6 (amended): with lineno beyond the end of the file, extract_code_snippet
\* returns the lines numbered lineno - context and above, which are none once
\* lineno exceeds the length of the file by more than context; on a file of 10
\* lines, lineno 100 and context 5 give the empty text.
C6_BeyondEndReturnsWindow ==
    (Done("extract_code_snippet") /\ req.file.readable
        /\ req.lineno > Len(req.file.lines))
        => /\ res.value
                = SelectSeq(req.file.lines, LAMBDA i : i >= req.lineno - req.context)
           /\ (req.lineno > Len(req.file.lines) + req.context) => res.value = <<>>

C6_Witness ==
    /\ Done("extract_code_snippet") /\ req.file.readable
    /\ Len(req.file.lines) = 10 /\ req.lineno = 100 /\ req.context = 5
    /\ res.value = <<>>

\* C7: every symbol parse_with_treesitter returns carries the 1-based line on
\* which its def or class keyword is written, also after blank lines; the file
\* 'def foo(x):', '    pass', '', 'class Bar:', '    pass' gives exactly
\* function foo at line 1 and class Bar at line 4, and a call of foo at line 1.
C7_SymbolLineIsKeywordLine ==
    (Done("parse_with_treesitter") /\ req.file.readable)
        => /\ \A i \in 1..Len(res.value.symbols) :
                  LET sym == res.value.symbols[i]
                  IN LineDeclares(req.file.text, sym.lineno, Keyword(sym.type))
           /\ req.file.text = JoinLines(ScenarioA)
                  => /\ res.value.symbols
                          = << [type |-> "function", name |-> "foo", lineno |-> 1],
                               [type |-> "class", name |-> "Bar", lineno |-> 4] >>
                     /\ \E i \in 1..Len(res.value.calls) :
                            res.value.calls[i] = [call |-> "foo", lineno |-> 1]

\* C8: read_readme returns the content of the first candidate that exists, in
\* the order README.md, readme.md, README.rst, README (the empty string if it
\* cannot be decoded), and a distinct "no value" exactly when no candidate
\* exists.
C8_ReadmeNoValueIffAbsent ==
    Done("read_readme")
        => LET present == { i \in 1..Len(candidate) : req.cands[candidate[i]] # "absent" }
           IN /\ ~res.raised
              /\ (res.value = None) <=> (present = {})
              /\ present # {}
                    => LET i == CHOOSE j \in present : \A k \in present : j <= k
                           c == candidate[i]
                       IN res.value = Str(IF req.cands[c] = "text" THEN c ELSE "")

\* the last path segment with one trailing ".git" removed
StripGitSuffix(seg) ==
    IF seg # <<>> /\ seg[Len(seg)] = ".git" THEN Front(seg) ELSE seg

\* C9: the repository name of an acquisition whose fetch succeeded is the last
\* path segment of the URL, trailing slashes removed, with only a trailing
\* ".git" stripped; ".git" elsewhere in the segment stays.
C9_NameStripsOnlyTrailingGit ==
    (Done("clone_repo") /\ locals.fetch = "exit0")
        => /\ locals.named
           /\ locals.name = StripGitSuffix(basename(rstripSlash(req.url)))

OfType(symbols, type) == SelectSeq(symbols, LAMBDA sym : sym.type = type)
Increasing(symbols) ==
    \A i \in 1..(Len(symbols) - 1) : symbols[i].lineno < symbols[i + 1].lineno
DeclarationLines(text, keyword) ==
    { k \in 1..LineCount(text) : LineDeclares(text, k, keyword) }

\* C10: the symbols of a readable file are all its functions in file order
\* followed by all its classes in file order; top_symbols is the first
\* min(10, len(symbols)) of them in that order, num_symbols their number and
\* num_calls the number of calls.
C10_FunctionsThenClasses ==
    (Done("parse_with_treesitter") /\ req.file.readable)
        => LET symbols == res.value.symbols
               funcs == OfType(symbols, "function")
               classes == OfType(symbols, "class")
               top == res.value.summary.top_symbols
           IN /\ res.value.ok
              /\ symbols = funcs \o classes
              /\ Increasing(funcs) /\ Increasing(classes)
              /\ Len(funcs) = Cardinality(DeclarationLines(req.file.text, "def"))
              /\ Len(classes) = Cardinality(DeclarationLines(req.file.text, "class"))
              /\ Len(top) = (IF Len(symbols) < 10 THEN Len(symbols) ELSE 10)
              /\ \A i \in 1..Len(top) : top[i] = symbols[i]
              /\ res.value.summary.num_symbols = Len(symbols)
              /\ res.value.summary.num_calls = Len(res.value.calls)

\* more than ten symbols, with a class written above a function
C10_Witness ==
    /\ Done("parse_with_treesitter") /\ req.file.readable
    /\ Len(res.value.symbols) > 10
    /\ Len(res.value.summary.top_symbols) = 10
    /\ \E i, j \in 1..Len(res.value.symbols) :
           /\ i < j
           /\ res.value.symbols[i].type = "function"
           /\ res.value.symbols[j].type = "class"
           /\ res.value.symbols[j].lineno < res.value.symbols[i].lineno
=============================================================================
